---- MODULE Spec2Model ----
(***************************************************************************)
(* Model of scripts/board.py: the Board session of the power-supply        *)
(* tester.  One Board object owns the hardware handle, the last-known      *)
(* voltages, the cumulative history and the PID controller.                *)
(*                                                                         *)
(* Units.  Voltages are integers in centivolts (0.01 V), duty cycles in    *)
(* hundredths of full scale, currents in centiamps, resistances in ohms,   *)
(* so that voltage = current * resistance needs no conversion.  A raw      *)
(* analog sample (pyfirmata: a float in [0, 1], or None) is an integer in  *)
(* tenths of full scale, or None.  Targets that the code computes by a     *)
(* division (numpy.linspace, vin / resistance) are exact fractions         *)
(* <<numerator, denominator>>.  Time is counted in ticks of one            *)
(* millisecond: the clock advances only in time.sleep.                     *)
(***************************************************************************)
EXTENDS Integers, Sequences, FiniteSets, TLC

\* ------------------------------------------------------------------ bounds
\* Length of the cyclic stream of analog samples the hardware delivers.
SigLen == 2
\* Largest times_to_read of a direct read_voltages call.
MaxReads == 3
\* Largest max_tries of a direct set_vload call.
MaxTries == 2
\* Largest isteps of a search_current_limit call.
MaxSteps == 2
\* A new top-level call starts only while the history has at most this many rows.
MaxHist == 1
\* ... and only while fewer than this many files have been written.
MaxExports == 1

\* ------------------------------------------------------- program constants
\* pyfirmata's pin.read() answers None until (and whenever) no report is held.
None == -1
\* Board.__init__ defaults.
DefaultGateThresh == 48
DefaultResistance == 10
DefaultSenseVoltageDivider == 1
\* self.gate_thresh = 0.48
HardGateThresh == 48
\* 5.2 volts full scale: 52 centivolts per tenth of full scale.
FullScale == 52
\* read_voltages(times_to_read=5, wait_time_between_reads=0.001)
DefaultTimesToRead == 5
DefaultWait == 1
\* set_vload(max_tries=10)
DefaultMaxTries == 10
\* A duty cycle of 1.
DutyOne == 100

\* ------------------------------------------------------------ input sets
\* One sampling round reads (vload, vin); None is a missing sample.
SamplePairs == {<<None, 0>>, <<1, None>>, <<2, 3>>}
Signals == [1..SigLen -> SamplePairs]
GateThreshArgs == {30, DefaultGateThresh}
ReadCounts == -1..MaxReads
WaitTimes == {0, DefaultWait}
TargetVoltages == {0, FullScale}
TryCounts == 0..MaxTries
Currents == {1, 5}
SweepEnds == {1, 2, 3}
SweepStarts == {2}
StepCounts == -1..MaxSteps
Resistances == {DefaultResistance, 2 * DefaultResistance}
TestTimes == {0, 1}

Pins == {"vload", "vin"}

\* --------------------------------------------------------------- helpers
\* Exact fractions <<n, d>> with d > 0.
Frac(n, d) == <<n, d>>
FracEq(p, q) == p[1] * q[2] = q[1] * p[2]
FracLess(p, q) == p[1] * q[2] < q[1] * p[2]
FracMul(p, k) == <<p[1] * k, p[2]>>
FracDiv(p, k) == <<p[1], p[2] * k>>

\* sorted(data): insertion of each element into an ascending list.
RECURSIVE Insert(_, _)
Insert(x, s) ==
    IF s = << >> THEN <<x>>
    ELSE IF x <= Head(s) THEN <<x>> \o s
    ELSE <<Head(s)>> \o Insert(x, Tail(s))

RECURSIVE Sorted(_)
Sorted(s) == IF s = << >> THEN << >> ELSE Insert(Head(s), Sorted(Tail(s)))

\* statistics.median with the mean of the two middle values left out.
MedianLow(data) == Sorted(data)[(Len(data) + 1) \div 2]

\* statistics.median(data): the middle value of the sorted data, or the mean
\* of the two middle values when their number is even.  The samples are
\* multiples of FullScale, an even number, so the mean is exact.
median(data) ==
    LET s == Sorted(data)
        n == Len(data)
    IN  IF n % 2 = 1 THEN s[n \div 2 + 1]
        ELSE (s[n \div 2] + s[n \div 2 + 1]) \div 2

\* if value is None: value = 0; value = value * self.value_to_voltage
ToVoltage(value, factor) == (IF value = None THEN 0 ELSE value) * factor

\* numpy.linspace(start, stop, num, endpoint=False) with the last point dropped.
linspaceShort(start, stop, num) ==
    [k \in 1..(num - 1) |-> Frac(start * num + (k - 1) * (stop - start), num)]

\* numpy.linspace(start, stop, num) for num >= 0: start + k * (stop - start) / (num - 1).
linspace(start, stop, num) ==
    IF num = 1 THEN <<Frac(start, 1)>>
    ELSE [k \in 1..num |-> Frac(start * (num - 1) + (k - 1) * (stop - start), num - 1)]

\* self.pid.output_limits = (0, 1) : the gate threshold forgotten.
OutputLimitsFull(thresh) == <<0, DutyOne>>

\* self.pid.output_limits = (0, 1 - self.gate_thresh)
OutputLimits(thresh) == <<0, DutyOne - thresh>>

\* self.pid(vload): simple_pid clamps its output to output_limits; which value
\* of the window it answers depends on the elapsed wall-clock time, so the two
\* ends of the window stand for the whole window.
PidOutputs(limits) == {limits[1], limits[2]}

\* ----------------------------------------------------------------- state
VARIABLES
    gate_thresh_arg,    \* the gate_thresh keyword argument of Board(...)
    gate_thresh,        \* self.gate_thresh
    resistance,         \* self.resistance
    value_to_voltage,   \* self.value_to_voltage
    voltages,           \* self.voltages: {} or {"vload": .., "vin": ..}
    voltages_history,   \* self.voltages_history: three columns
    pid,                \* self.pid: setpoint, tunings, output_limits
    vout,               \* the duty cycle last written to the PWM pin, None before
    exports,            \* number of files written by to_csv
    signal,             \* the cyclic stream of analog samples (vload, vin)
    nreads,             \* number of sampling rounds done on the analog pins
    now,                \* self.time(): ticks since the session was created
    pc,                 \* position of the single caller thread
    call,               \* the top-level call in progress or last made
    err,                \* the error the last top-level call raised, or "none"
    ret,                \* the value read_voltages last returned
    rv,                 \* frame of read_voltages
    sv,                 \* frame of set_vload
    sc,                 \* frame of set_current
    scl,                \* frame of search_current_limit
    tr                  \* frame of test_resistance

session == <<gate_thresh_arg, gate_thresh, resistance, value_to_voltage, voltages,
             voltages_history, pid, vout, exports>>
hardware == <<signal, nreads, now>>
frames == <<rv, sv, sc, scl, tr>>
vars == <<session, hardware, pc, call, err, ret, frames>>

EmptyColumns == [time |-> << >>, vload |-> << >>, vin |-> << >>]
NoRv == [n |-> 0, w |-> 0, i |-> 0, measurements |-> EmptyColumns, ret |-> "idle"]
NoSv == [max_tries |-> 0, tries_count |-> 0, verbose |-> FALSE, writes |-> 0,
         ret |-> "idle"]
NoSc == [current |-> Frac(0, 1), ret |-> "idle"]
NoScl == [points |-> << >>, idx |-> 0, data |-> << >>, commanded |-> << >>]
NoTr == [resistance |-> 0, test_time |-> 0, tstart |-> 0]

\* self.gate_thresh = 0.48: the keyword argument is not used.
InitGateThresh(arg) == HardGateThresh

\* Board.__init__
Init ==
    /\ gate_thresh_arg \in GateThreshArgs
    /\ gate_thresh = InitGateThresh(gate_thresh_arg)
    /\ resistance = DefaultResistance
    /\ value_to_voltage = FullScale * DefaultSenseVoltageDivider
    /\ voltages = << >>
    /\ voltages_history = EmptyColumns
    /\ pid = [setpoint |-> Frac(0, 1), tunings |-> <<0, 0, 0>>, output_limits |-> <<None, None>>]
    /\ vout = None
    /\ exports = 0
    /\ signal \in Signals
    /\ nreads = 0
    /\ now = 0
    /\ pc = "idle"
    /\ call = [op |-> "__init__", args |-> << >>]
    /\ err = "none"
    /\ ret = << >>
    /\ rv = NoRv /\ sv = NoSv /\ sc = NoSc /\ scl = NoScl /\ tr = NoTr

\* A top-level call is made by the idle caller thread.
CanCall ==
    /\ pc = "idle"
    /\ Len(voltages_history.time) <= MaxHist
    /\ exports < MaxExports

\* self.board.analog[pin].read() in sampling round k (counted from 0).
AnalogRead(pin, k) ==
    LET pair == signal[(k % SigLen) + 1]
    IN  IF pin = "vload" THEN pair[1] ELSE pair[2]

\* ------------------------------------------------------- read_voltages
\* Entry of read_voltages with valid arguments: measurements = {...: []}.
EnterReadVoltages(n, w, back) ==
    /\ rv' = [n |-> n, w |-> w, i |-> 0, measurements |-> EmptyColumns, ret |-> back]
    /\ pc' = "rv_loop"

\* The history with one more row, one column left behind.
AppendRowNoTime(h, vl, vi, t) ==
    [time |-> h.time, vload |-> Append(h.vload, vl), vin |-> Append(h.vin, vi)]

\* One round of the for loop: both pins read, the time stamped.
AppendRow(h, vl, vi, t) ==
    [time |-> Append(h.time, t), vload |-> Append(h.vload, vl), vin |-> Append(h.vin, vi)]

\* if times_to_read <= 0: the delay left unchecked.
BadArgumentsCountOnly(n, w) == n <= 0

\* if times_to_read <= 0 or wait_time_between_reads <= 0
BadArguments(n, w) == n <= 0 \/ w <= 0

\* read_voltages called directly.
CallReadVoltages(n, w) ==
    /\ CanCall
    /\ call' = [op |-> "read_voltages", args |-> <<n, w>>]
    /\ sv' = NoSv /\ sc' = NoSc /\ scl' = NoScl /\ tr' = NoTr
    /\ IF BadArguments(n, w)
       THEN /\ err' = "ValueError"
            /\ pc' = "idle"
            /\ rv' = NoRv
       ELSE /\ err' = "none"
            /\ EnterReadVoltages(n, w, "idle")
    /\ UNCHANGED <<session, hardware, ret>>

\* for _ in range(times_to_read): read both pins, stamp the time, sleep.
ReadSample ==
    /\ pc = "rv_loop"
    /\ rv.i < rv.n
    /\ LET vl == ToVoltage(AnalogRead("vload", nreads), value_to_voltage)
           vi == ToVoltage(AnalogRead("vin", nreads), value_to_voltage)
       IN  /\ voltages_history' = AppendRow(voltages_history, vl, vi, now)
           /\ rv' = [rv EXCEPT !.i = @ + 1,
                               !.measurements = AppendRow(@, vl, vi, now)]
    /\ nreads' = nreads + 1
    /\ now' = now + rv.w
    /\ UNCHANGED <<gate_thresh_arg, gate_thresh, resistance, value_to_voltage, voltages,
                   pid, vout, exports, signal, pc, call, err, ret, sv, sc, scl, tr>>

\* med[pin_name] = median(measurements[pin_name])
Medians(measurements) == [p \in Pins |-> median(measurements[p])]

\* self.voltages = med; return med
ReadReturn ==
    /\ pc = "rv_loop"
    /\ rv.i >= rv.n
    /\ voltages' = Medians(rv.measurements)
    /\ ret' = voltages'
    /\ pc' = rv.ret
    /\ UNCHANGED <<gate_thresh_arg, gate_thresh, resistance, value_to_voltage,
                   voltages_history, pid, vout, exports, hardware, call, err, frames>>

\* ------------------------------------------------------------ save_data
\* df.to_csv(name)
SaveData(n) == n + 1

CallSaveData ==
    /\ CanCall
    /\ call' = [op |-> "save_data", args |-> << >>]
    /\ err' = "none"
    /\ exports' = SaveData(exports)
    /\ rv' = NoRv /\ sv' = NoSv /\ sc' = NoSc /\ scl' = NoScl /\ tr' = NoTr
    /\ UNCHANGED <<gate_thresh_arg, gate_thresh, resistance, value_to_voltage, voltages,
                   voltages_history, pid, vout, hardware, pc, ret>>

\* ------------------------------------------------------------ set_vload
\* self.pid = PID(0.05, 0.3, 0.00, voltage); output_limits; tries_count = 0
EnterSetVload(voltage, max_tries, verbose, back) ==
    /\ pid' = [setpoint |-> voltage, tunings |-> <<5, 30, 0>>,
               output_limits |-> OutputLimits(gate_thresh)]
    /\ sv' = [max_tries |-> max_tries, tries_count |-> 0, verbose |-> verbose,
              writes |-> 0, ret |-> back]
    /\ pc' = "sv_loop"

CallSetVload(voltage, max_tries, verbose) ==
    /\ CanCall
    /\ call' = [op |-> "set_vload", args |-> <<voltage, max_tries>>]
    /\ err' = "none"
    /\ EnterSetVload(Frac(voltage, 1), max_tries, verbose, "idle")
    /\ rv' = NoRv /\ sc' = NoSc /\ scl' = NoScl /\ tr' = NoTr
    /\ UNCHANGED <<gate_thresh_arg, gate_thresh, resistance, value_to_voltage, voltages,
                   voltages_history, vout, exports, hardware, ret>>

\* while tries_count < max_tries and tries_count < 1: a single try.
MoreTriesOnce(tries_count, max_tries) == tries_count < max_tries /\ tries_count < 1

\* while tries_count <= max_tries: one try too many.
MoreTriesInclusive(tries_count, max_tries) == tries_count <= max_tries

\* while tries_count < max_tries
MoreTries(tries_count, max_tries) == tries_count < max_tries

\* The loop head: another try (tries_count += 1; self.read_voltages()), or the
\* end of the call (if verbose: self.save_data()).
SetVloadLoop ==
    /\ pc = "sv_loop"
    /\ IF MoreTries(sv.tries_count, sv.max_tries)
       THEN /\ sv' = [sv EXCEPT !.tries_count = @ + 1]
            /\ EnterReadVoltages(DefaultTimesToRead, DefaultWait, "sv_pid")
            /\ UNCHANGED exports
       ELSE /\ exports' = IF sv.verbose THEN SaveData(exports) ELSE exports
            /\ pc' = sv.ret
            /\ UNCHANGED <<rv, sv>>
    /\ UNCHANGED <<gate_thresh_arg, gate_thresh, resistance, value_to_voltage, voltages,
                   voltages_history, pid, vout, hardware, call, err, ret, sc, scl, tr>>

\* output = self.pid(vload); output += self.gate_thresh
Duty(output, thresh) == output + thresh

\* vload = self.voltages["vload"]; output = self.pid(vload) + gate_thresh;
\* self.vout.write(output)
SetVloadWrite ==
    /\ pc = "sv_pid"
    /\ "vload" \in DOMAIN voltages
    /\ \E output \in PidOutputs(pid.output_limits) :
           vout' = Duty(output, gate_thresh)
    /\ sv' = [sv EXCEPT !.writes = @ + 1]
    /\ pc' = "sv_loop"
    /\ UNCHANGED <<gate_thresh_arg, gate_thresh, resistance, value_to_voltage, voltages,
                   voltages_history, pid, exports, hardware, call, err, ret, rv, sc, scl, tr>>

\* ---------------------------------------------------------- set_current
\* voltage_to_set = current * self.resistance
VoltageToSet(current, r) == FracMul(current, r)

\* voltage_to_set = current * self.resistance; self.set_vload(voltage_to_set)
EnterSetCurrent(current, back) ==
    /\ sc' = [current |-> current, ret |-> back]
    /\ EnterSetVload(VoltageToSet(current, resistance), DefaultMaxTries, FALSE, "sc_ret")

CallSetCurrent(current) ==
    /\ CanCall
    /\ call' = [op |-> "set_current", args |-> <<current>>]
    /\ err' = "none"
    /\ EnterSetCurrent(Frac(current, 1), "idle")
    /\ rv' = NoRv /\ scl' = NoScl /\ tr' = NoTr
    /\ UNCHANGED <<gate_thresh_arg, gate_thresh, resistance, value_to_voltage, voltages,
                   voltages_history, vout, exports, hardware, ret>>

\* vload = self.voltages["vload"]; the report is printed and the call returns.
SetCurrentReturn ==
    /\ pc = "sc_ret"
    /\ IF "vload" \in DOMAIN voltages
       THEN pc' = sc.ret /\ UNCHANGED err
       ELSE pc' = "idle" /\ err' = "KeyError"
    /\ UNCHANGED <<session, hardware, call, ret, frames>>

\* ------------------------------------------------- search_current_limit
\* points = np.linspace(istart, iend, num=isteps); data = []
CallSearchCurrentLimit(iend, istart, isteps) ==
    /\ CanCall
    /\ call' = [op |-> "search_current_limit", args |-> <<iend, istart, isteps>>]
    /\ IF isteps < 0
       THEN /\ err' = "ValueError"
            /\ pc' = "idle"
            /\ scl' = NoScl
       ELSE /\ err' = "none"
            /\ pc' = "scl_loop"
            /\ scl' = [points |-> linspace(istart, iend, isteps), idx |-> 0,
                       data |-> << >>, commanded |-> << >>]
    /\ rv' = NoRv /\ sv' = NoSv /\ sc' = NoSc /\ tr' = NoTr
    /\ UNCHANGED <<session, hardware, ret>>

\* for i, s in enumerate(points): self.set_current(s), or after the last
\* point df.to_csv("../data/test3.csv").
SearchLoop ==
    /\ pc = "scl_loop"
    /\ IF scl.idx < Len(scl.points)
       THEN /\ scl' = [scl EXCEPT !.commanded = Append(@, scl.points[scl.idx + 1])]
            /\ EnterSetCurrent(scl.points[scl.idx + 1], "scl_row")
            /\ UNCHANGED exports
       ELSE /\ exports' = SaveData(exports)
            /\ pc' = "idle"
            /\ UNCHANGED <<pid, sv, sc, scl>>
    /\ UNCHANGED <<gate_thresh_arg, gate_thresh, resistance, value_to_voltage, voltages,
                   voltages_history, vout, hardware, call, err, ret, rv, tr>>

\* datav = {"i", "vin", "vload", "current"}; data.append(datav)
SearchRow ==
    /\ pc = "scl_row"
    /\ IF Pins \subseteq DOMAIN voltages
       THEN /\ scl' = [scl EXCEPT
                         !.data = Append(@, [i |-> scl.idx, vin |-> voltages["vin"],
                                             vload |-> voltages["vload"],
                                             current |-> Frac(voltages["vload"], resistance)]),
                         !.idx = @ + 1]
            /\ pc' = "scl_loop"
            /\ UNCHANGED err
       ELSE /\ pc' = "idle" /\ err' = "KeyError" /\ UNCHANGED scl
    /\ UNCHANGED <<session, hardware, call, ret, rv, sv, sc, tr>>

\* ------------------------------------------------------ test_resistance
\* if resistance <= self.resistance: raise ValueError(s), accepting an equal one.
TooLowStrict(requested, load) == requested < load

\* if resistance <= self.resistance: raise ValueError(s)
TooLow(requested, load) == requested <= load

CallTestResistance(requested, test_time) ==
    /\ CanCall
    /\ call' = [op |-> "test_resistance", args |-> <<requested, test_time>>]
    /\ IF TooLow(requested, resistance)
       THEN /\ err' = "ValueError"
            /\ pc' = "idle"
            /\ tr' = NoTr
       ELSE /\ err' = "none"
            /\ pc' = "tr_loop"
            /\ tr' = [resistance |-> requested, test_time |-> test_time, tstart |-> now]
    /\ rv' = NoRv /\ sv' = NoSv /\ sc' = NoSc /\ scl' = NoScl
    /\ UNCHANGED <<session, hardware, ret>>

\* while (time.time() - tstart) < test_time: the target is recomputed from
\* self.voltages["vin"] and set_vload runs; afterwards self.save_data().
TestLoop ==
    /\ pc = "tr_loop"
    /\ IF now - tr.tstart < tr.test_time
       THEN IF "vin" \in DOMAIN voltages
            THEN /\ EnterSetVload(
                        VoltageToSet(FracDiv(Frac(voltages["vin"], 1), tr.resistance),
                                     resistance),
                        DefaultMaxTries, FALSE, "tr_loop")
                 /\ UNCHANGED <<exports, err>>
            ELSE /\ err' = "KeyError"
                 /\ pc' = "idle"
                 /\ UNCHANGED <<exports, pid, sv>>
       ELSE /\ exports' = SaveData(exports)
            /\ pc' = "idle"
            /\ UNCHANGED <<err, pid, sv>>
    /\ UNCHANGED <<gate_thresh_arg, gate_thresh, resistance, value_to_voltage, voltages,
                   voltages_history, vout, hardware, call, ret, rv, sc, scl, tr>>

\* -------------------------------------------------------- specification
Next ==
    \/ \E n \in ReadCounts, w \in WaitTimes : CallReadVoltages(n, w)
    \/ ReadSample
    \/ ReadReturn
    \/ CallSaveData
    \/ \E v \in TargetVoltages, m \in TryCounts, b \in BOOLEAN : CallSetVload(v, m, b)
    \/ SetVloadLoop
    \/ SetVloadWrite
    \/ \E c \in Currents : CallSetCurrent(c)
    \/ SetCurrentReturn
    \/ \E iend \in SweepEnds, istart \in SweepStarts, isteps \in StepCounts :
           CallSearchCurrentLimit(iend, istart, isteps)
    \/ SearchLoop
    \/ SearchRow
    \/ \E r \in Resistances, t \in TestTimes : CallTestResistance(r, t)
    \/ TestLoop

Spec == Init /\ [][Next]_vars

\* ================================================================ claims
Range(s) == {s[k] : k \in DOMAIN s}
IsPrefix(s, u) == Len(s) <= Len(u) /\ \A k \in 1..Len(s) : s[k] = u[k]
LastRows(s, n) == SubSeq(s, Len(s) - n + 1, Len(s))
InSetVload == pc \in {"sv_loop", "sv_pid"} \/ (pc = "rv_loop" /\ rv.ret = "sv_pid")
Returned(name) == pc = "idle" /\ call.op = name /\ err = "none"

\* The k-th smallest value of s, found by counting and not by sorting.
OrderStatistic(s, k) ==
    CHOOSE x \in Range(s) :
        /\ Cardinality({j \in DOMAIN s : s[j] < x}) < k
        /\ Cardinality({j \in DOMAIN s : s[j] <= x}) >= k

\* Twice the statistical median of s.
TwiceMedian(s) ==
    LET n == Len(s)
    IN  IF n % 2 = 1 THEN 2 * OrderStatistic(s, (n + 1) \div 2)
        ELSE OrderStatistic(s, n \div 2) + OrderStatistic(s, n \div 2 + 1)

\* The n samples a pin delivered from sampling round first on, missing ones
\* replaced by zero, scaled by the calibration factor.
ExpectedSamples(pin, first, n) ==
    [k \in 1..n |->
        LET raw == AnalogRead(pin, first + k - 1)
        IN  IF raw = None THEN 0 ELSE raw * value_to_voltage]

\* C1: during a set_vload call the number of PWM writes never exceeds
\* max_tries, the load voltage the controller is fed always exists, and a
\* set_vload call raises no error, also when the budget is exhausted.
C1_WritesWithinBudget ==
    /\ sv.writes <= sv.max_tries
    /\ sv.tries_count <= sv.max_tries
    /\ (pc = "sv_pid" => "vload" \in DOMAIN voltages)
    /\ (call.op = "set_vload" => err = "none")

C1_BudgetExhausted ==
    /\ Returned("set_vload")
    /\ sv.max_tries = MaxTries
    /\ sv.writes = sv.max_tries

\* C2 as stated: once the measured load voltage equals the target (it is
\* then within every tolerance) with tries left, set_vload stops: its next
\* step is neither another read nor another write.
C2_StopsWhenConverged ==
    [][(/\ pc = "sv_loop"
        /\ sv.tries_count >= 1
        /\ FracEq(Frac(voltages["vload"], 1), pid.setpoint))
       => (pc' = sv.ret /\ nreads' = nreads /\ vout' = vout)]_vars

\* C2 amended: set_vload has no convergence test.  Every try is one
\* read_voltages call followed by one PWM write, and whenever set_vload is
\* not running the last call has done exactly max_tries tries and writes,
\* whatever was measured.
C2_RunsWholeBudget ==
    /\ (pc = "sv_loop" => sv.writes = sv.tries_count)
    /\ (pc = "sv_pid" => sv.writes + 1 = sv.tries_count)
    /\ (~InSetVload => sv.writes = sv.max_tries /\ sv.tries_count = sv.max_tries)

\* A direct set_vload call that measured exactly its target in the first of
\* its two tries, and made the second try all the same.
C2_ConvergedEarlyAndWentOn ==
    /\ Returned("set_vload")
    /\ sv.max_tries = 2
    /\ sv.writes = 2
    /\ Len(voltages_history.vload) >= 2 * DefaultTimesToRead
    /\ FracEq(Frac(median(SubSeq(voltages_history.vload,
                                 Len(voltages_history.vload) - 2 * DefaultTimesToRead + 1,
                                 Len(voltages_history.vload) - DefaultTimesToRead)), 1),
              pid.setpoint)

\* C3: a test_resistance call with a resistance not above the load
\* resistance raises ValueError at once: no analog read, no PWM write, no
\* history row, no file, and the session is as it was.
C3_LowResistanceRejected ==
    [][(/\ pc = "idle"
        /\ call'.op = "test_resistance"
        /\ call'.args[1] <= resistance)
       => (/\ err' = "ValueError"
           /\ pc' = "idle"
           /\ UNCHANGED <<session, hardware>>)]_vars

C3_RejectedWithHistory ==
    /\ pc = "idle"
    /\ call.op = "test_resistance"
    /\ call.args[1] = resistance
    /\ err = "ValueError"
    /\ Len(voltages_history.time) > 0

\* C4: a read_voltages call with a non-positive count or a non-positive
\* delay raises ValueError at once: no analog read, no history row, and the
\* last-known voltages are as they were.
C4_BadArgumentsRejected ==
    [][(/\ pc = "idle"
        /\ call'.op = "read_voltages"
        /\ (call'.args[1] <= 0 \/ call'.args[2] <= 0))
       => (/\ err' = "ValueError"
           /\ pc' = "idle"
           /\ UNCHANGED <<session, hardware, ret>>)]_vars

C4_BadDelayRejected ==
    /\ pc = "idle"
    /\ call.op = "read_voltages"
    /\ call.args[1] > 0
    /\ call.args[2] <= 0
    /\ err = "ValueError"
    /\ DOMAIN voltages = Pins

\* C5: after read_voltages has returned from N rounds, the value returned for
\* each pin is the statistical median of that pin's N samples, missing ones
\* replaced by zero and each scaled by the calibration factor; it is 0 when
\* all N samples are missing or zero; and it is the last-known voltage.
C5_ReturnsMedian ==
    (pc # "rv_loop" /\ rv.n > 0) =>
        /\ voltages = ret
        /\ DOMAIN ret = Pins
        /\ \A p \in Pins :
             LET s == ExpectedSamples(p, nreads - rv.n, rv.n)
             IN  /\ 2 * ret[p] = TwiceMedian(s)
                 /\ (Range(s) = {0} => ret[p] = 0)

\* A direct read whose load samples differ, one of them missing, and whose
\* median is none of the samples.
C5_MedianOfUnequalSamples ==
    /\ Returned("read_voltages")
    /\ rv.n = 2
    /\ AnalogRead("vload", nreads - 2) = None
    /\ ret["vload"] \notin Range(rv.measurements.vload)
    /\ ret["vin"] = 0

\* C6: the history is append-only.  No step removes or rewrites a recorded
\* entry of any column; the three columns always have equal length; and when
\* read_voltages(N) has returned, its N measurements are the last N entries
\* of each column.
C6_HistoryAppendOnly ==
    /\ [][\A c \in {"time", "vload", "vin"} :
            IsPrefix(voltages_history[c], voltages_history'[c])]_vars
    /\ [](/\ Len(voltages_history.vload) = Len(voltages_history.time)
          /\ Len(voltages_history.vin) = Len(voltages_history.time))
    /\ []((pc # "rv_loop" /\ rv.n > 0) =>
            \A c \in {"time", "vload", "vin"} :
                /\ Len(rv.measurements[c]) = rv.n
                /\ Len(voltages_history[c]) >= rv.n
                /\ LastRows(voltages_history[c], rv.n) = rv.measurements[c])

C6_AppendedToEarlierRows ==
    /\ Returned("read_voltages")
    /\ rv.n = 2
    /\ Len(voltages_history.time) = 3

\* C7: every duty cycle written to the PWM pin is at least the session's gate
\* threshold and at most 1, the controller's output window being
\* [0, 1 - gate threshold] while set_vload runs.
C7_DutyInSafeWindow ==
    /\ (vout # None => gate_thresh <= vout /\ vout <= DutyOne)
    /\ (InSetVload => pid.output_limits = <<0, DutyOne - gate_thresh>>)

C7_FullDutyWritten ==
    /\ sv.writes > 0
    /\ vout = DutyOne

\* C8: the gate threshold given to the constructor is the one set_vload
\* uses: no written duty cycle is below it, and the controller's upper
\* output limit is 1 minus it.
C8_GateThreshFromArgument ==
    /\ (vout # None => gate_thresh_arg <= vout /\ vout <= DutyOne)
    /\ (InSetVload => pid.output_limits = <<0, DutyOne - gate_thresh_arg>>)

\* The currents handed to set_current, in order, one strictly above the last.
StrictlyIncreasing(s) == \A k \in 1..(Len(s) - 1) : FracLess(s[k], s[k + 1])

\* C9 as stated: a completed sweep has recorded exactly isteps rows and the
\* commanded currents are strictly increasing.
C9_SweepStrictlyIncreasing ==
    Returned("search_current_limit") =>
        /\ Len(scl.data) = call.args[3]
        /\ StrictlyIncreasing(scl.commanded)

\* C9 amended: the sweep hands its points to set_current one after another,
\* each target voltage being the current times the load resistance, and a
\* completed sweep has recorded exactly isteps rows, numbered from 0; the
\* commanded currents run linearly from istart to iend, so each is strictly
\* greater than the one before when iend > istart, equal to it when
\* iend = istart and strictly smaller when iend < istart.
C9_SweepRows ==
    /\ (call.op = "search_current_limit" /\ InSetVload =>
            /\ scl.commanded # << >>
            /\ FracEq(pid.setpoint,
                      FracMul(scl.commanded[Len(scl.commanded)], resistance)))
    /\ (Returned("search_current_limit") =>
            LET iend == call.args[1]
                istart == call.args[2]
                isteps == call.args[3]
            IN  /\ Len(scl.data) = isteps
                /\ Len(scl.commanded) = isteps
                /\ \A k \in 1..Len(scl.data) : scl.data[k].i = k - 1
                /\ (isteps >= 1 => FracEq(scl.commanded[1], Frac(istart, 1)))
                /\ (isteps >= 2 => FracEq(scl.commanded[isteps], Frac(iend, 1)))
                /\ \A k \in 1..(isteps - 1) :
                     /\ iend > istart => FracLess(scl.commanded[k], scl.commanded[k + 1])
                     /\ iend = istart => FracEq(scl.commanded[k], scl.commanded[k + 1])
                     /\ iend < istart => FracLess(scl.commanded[k + 1], scl.commanded[k]))

C9_RisingSweepDone ==
    /\ Returned("search_current_limit")
    /\ call.args[1] > call.args[2]
    /\ call.args[3] = 2
    /\ Len(scl.data) = 2

\* C10: a test_resistance call with a resistance above the load resistance
\* raises no error, in a fresh session as in any other.
C10_TestResistanceNeverFails ==
    (call.op = "test_resistance" /\ call.args[1] > resistance) => err = "none"

====
